---- MODULE Spec2Model ----
(***************************************************************************)
(* scnpm: the lockfile scanner (pkg/scanner/scanner.go) and its data       *)
(* shapes (pkg/types/types.go).                                            *)
(*                                                                         *)
(* A Go string is modelled as the sequence of its characters, so that      *)
(* strings.Contains, strings.Count, strings.Split and strings.HasPrefix    *)
(* are computed character by character, as the library computes them.      *)
(* A Go map is a function; the order in which `range` visits its keys is   *)
(* not defined by the language, so every loop over a map is modelled by    *)
(* the set of results it can produce, one per visiting order.              *)
(***************************************************************************)
EXTENDS Integers, Sequences, FiniteSets, TLC

VARIABLES
    packageLock,  \* *types.PackageLock handed to ScanPackages
    queries,      \* []types.PackageQuery handed to ScanPackages
    config,       \* scanner.FilterConfig handed to ScanPackages
    pc,           \* position in ScanPackages, or in a direct call of a helper
    i,            \* loop index of ScanPackages (1-based)
    instances,    \* the local `instances` of ScanPackages (scanner.go:28)
    results,      \* the local `results` of ScanPackages
    args,         \* arguments of a direct call of one function of the package
    ret           \* value returned by that call

vars == <<packageLock, queries, config, pc, i, instances, results, args, ret>>

-----------------------------------------------------------------------------
(* Bounds of the model. *)

MaxPackages == 2   \* entries of a lockfile (flat map keys, or nodes of the legacy tree)
MaxQueries == 2    \* length of the query list
MaxNameLen == 3    \* length of the generated package names given to MatchesPackageName
MaxInstances == 3  \* length of the instance list given to applyFilters
MaxMinDepth == 2   \* largest --min-depth
MaxInputLen == 4   \* length of the generated strings given to parsePackageQuery
MaxTokens == 2     \* query strings of one run of the command, all sources together

-----------------------------------------------------------------------------
(* String literals of the program and of its inputs. *)

node_modules == <<"n", "o", "d", "e", "_", "m", "o", "d", "u", "l", "e", "s">>
nmSlash == <<"/", "n", "o", "d", "e", "_", "m", "o", "d", "u", "l", "e", "s", "/">>
nmPrefix == <<"n", "o", "d", "e", "_", "m", "o", "d", "u", "l", "e", "s", "/">>
arrow == <<" ", "-", ">", " ">>
slash == <<"/">>
emptyStr == <<>>

react == <<"r", "e", "a", "c", "t">>
reactDom == <<"r", "e", "a", "c", "t", "-", "d", "o", "m">>
node == <<"n", "o", "d", "e">>
typesNode == <<"@", "t", "y", "p", "e", "s", "/", "n", "o", "d", "e">>
vue == <<"v", "u", "e">>
express == <<"e", "x", "p", "r", "e", "s", "s">>
debug == <<"d", "e", "b", "u", "g">>
ms == <<"m", "s">>
svgo == <<"s", "v", "g", "o">>
chalk == <<"c", "h", "a", "l", "k">>
debugNmMs == debug \o nmSlash \o ms
v530 == <<"5", ".", "3", ".", "0">>
v412 == <<"4", ".", "1", ".", "2">>
caret530 == <<"^", "5", ".", "3", ".", "0">>
caret412 == <<"^", "4", ".", "1", ".", "2">>
at == <<"@">>
package == <<"p", "a", "c", "k", "a", "g", "e">>
v1820 == <<"1", "8", ".", "2", ".", "0">>
v1800 == <<"1", "8", ".", "0", ".", "0">>
caret123 == <<"^", "1", ".", "2", ".", "3">>
v100 == <<"1", ".", "0", ".", "0">>
beta == <<"b", "e", "t", "a">>
v434 == <<"4", ".", "3", ".", "4">>
v200 == <<"2", ".", "0", ".", "0">>

-----------------------------------------------------------------------------
(* The functions of package strings that the scanner calls. *)

\* strings.HasPrefix(s, prefix)
HasPrefix(s, prefix) ==
    /\ Len(prefix) <= Len(s)
    /\ SubSeq(s, 1, Len(prefix)) = prefix

\* s[k:] has the prefix sub (k is a 1-based position)
OccursAt(s, sub, k) ==
    /\ k + Len(sub) - 1 <= Len(s)
    /\ SubSeq(s, k, k + Len(sub) - 1) = sub

\* strings.Contains(s, substr)
Contains(s, substr) ==
    \E k \in 1..(Len(s) + 1) : OccursAt(s, substr, k)

\* strings.Count(s, substr) for a non-empty substr: the number of
\* non-overlapping occurrences, scanning from the left
RECURSIVE CountFrom(_, _, _)
CountFrom(s, substr, k) ==
    IF k + Len(substr) - 1 > Len(s) THEN 0
    ELSE IF OccursAt(s, substr, k) THEN 1 + CountFrom(s, substr, k + Len(substr))
    ELSE CountFrom(s, substr, k + 1)

Count(s, substr) == CountFrom(s, substr, 1)

\* strings.Split(s, sep) for a one-character sep: the fields between the
\* separators; Split("", "/") is the one-element list [""]
RECURSIVE SplitFrom(_, _, _, _)
SplitFrom(s, sep, k, field) ==
    IF k > Len(s) THEN <<field>>
    ELSE IF s[k] = sep[1] THEN <<field>> \o SplitFrom(s, sep, k + 1, <<>>)
    ELSE SplitFrom(s, sep, k + 1, Append(field, s[k]))

Split(s, sep) == SplitFrom(s, sep, 1, <<>>)

\* strings.Join(elems, sep)
RECURSIVE Join(_, _)
Join(elems, sep) ==
    IF Len(elems) = 0 THEN emptyStr
    ELSE IF Len(elems) = 1 THEN elems[1]
    ELSE elems[1] \o sep \o Join(Tail(elems), sep)

-----------------------------------------------------------------------------
(* MatchesPackageName, scanner.go:151-180 *)

MatchesPackageName_NoPartial(packageName, queryName) ==
    \/ packageName = queryName
    \/ /\ HasPrefix(packageName, <<"@">>)
       /\ ~HasPrefix(queryName, <<"@">>)
       /\ LET parts == Split(packageName, slash)
          IN  Len(parts) = 2 /\ parts[2] = queryName
    \/ /\ ~HasPrefix(packageName, <<"@">>)
       /\ HasPrefix(queryName, <<"@">>)
       /\ LET parts == Split(queryName, slash)
          IN  Len(parts) = 2 /\ parts[2] = packageName

MatchesPackageName(packageName, queryName) ==
    \* Exact match
    \/ packageName = queryName
    \* Package is scoped, query is not
    \/ /\ HasPrefix(packageName, <<"@">>)
       /\ ~HasPrefix(queryName, <<"@">>)
       /\ LET parts == Split(packageName, slash)
          IN  Len(parts) = 2 /\ parts[2] = queryName
    \* Query is scoped, package is not
    \/ /\ ~HasPrefix(packageName, <<"@">>)
       /\ HasPrefix(queryName, <<"@">>)
       /\ LET parts == Split(queryName, slash)
          IN  Len(parts) = 2 /\ parts[2] = packageName
    \* Partial matching
    \/ Contains(packageName, queryName)
    \/ Contains(queryName, packageName)

-----------------------------------------------------------------------------
(* matchesPackageInPath, scanner.go:94-113 *)

\* the name the loop body compares at index k of parts (1-based): the
\* pair "@scope/name" when parts[k+1] starts with "@" and a further part
\* exists, else parts[k+1]
NameAfter(parts, k) ==
    IF HasPrefix(parts[k + 1], <<"@">>) /\ k + 2 <= Len(parts)
    THEN parts[k + 1] \o slash \o parts[k + 2]
    ELSE parts[k + 1]

matchesPackageInPath_LastOnly(path, packageName) ==
    LET parts == Split(path, slash)
        hits == {k \in 1..Len(parts) : parts[k] = node_modules /\ k + 1 <= Len(parts)}
    IN  /\ hits # {}
        /\ LET last == CHOOSE k \in hits : \A h \in hits : h <= k
           IN  MatchesPackageName(NameAfter(parts, last), packageName)

matchesPackageInPath(path, packageName) ==
    LET parts == Split(path, slash)
    IN  \E k \in 1..Len(parts) :
            /\ parts[k] = node_modules
            /\ k + 1 <= Len(parts)
            /\ MatchesPackageName(NameAfter(parts, k), packageName)

-----------------------------------------------------------------------------
(* The instances findPackageInstancesInLock and searchDependenciesRecursive *)
(* build, scanner.go:54-62, 71-80 and 129-137.  Fields the code leaves at   *)
(* their zero value (Resolved, Integrity, License, ...) are left out.       *)

InstallInstance_CountSegments(path, version, dev) ==
    [Version |-> version, Path |-> path, LineNumber |-> 0,
     IsReference |-> FALSE, ReferenceType |-> "", IsDev |-> dev,
     IsNested |-> Contains(path, nmSlash),
     Depth |-> Count(path, nmPrefix)]

\* scanner.go:54-62 (path, pkg.Version, pkg.Dev) and 129-137
\* (currentPath, dep.Version, dep.Dev): the two literals are the same
InstallInstance(path, version, dev) ==
    [Version |-> version, Path |-> path, LineNumber |-> 0,
     IsReference |-> FALSE, ReferenceType |-> "", IsDev |-> dev,
     IsNested |-> Contains(path, nmSlash),
     Depth |-> Count(path, nmSlash)]

ReferenceInstance_SameDepth(path, dev, depName, depVersion) ==
    [Version |-> depVersion, Path |-> path \o arrow \o depName, LineNumber |-> 0,
     IsReference |-> TRUE, ReferenceType |-> "dependencies", IsDev |-> dev,
     IsNested |-> Contains(path, nmSlash),
     Depth |-> Count(path, nmSlash)]

ReferenceInstance_NoType(path, dev, depName, depVersion) ==
    [Version |-> depVersion, Path |-> path \o arrow \o depName, LineNumber |-> 0,
     IsReference |-> TRUE, ReferenceType |-> "", IsDev |-> dev,
     IsNested |-> Contains(path, nmSlash),
     Depth |-> Count(path, nmSlash) + 1]

ReferenceInstance_NestedFromLocation(path, dev, depName, depVersion) ==
    [Version |-> depVersion, Path |-> path \o arrow \o depName, LineNumber |-> 0,
     IsReference |-> TRUE, ReferenceType |-> "dependencies", IsDev |-> dev,
     IsNested |-> Contains(path \o arrow \o depName, nmSlash),
     Depth |-> Count(path, nmSlash) + 1]

\* scanner.go:71-80
ReferenceInstance(path, dev, depName, depVersion) ==
    [Version |-> depVersion, Path |-> path \o arrow \o depName, LineNumber |-> 0,
     IsReference |-> TRUE, ReferenceType |-> "dependencies", IsDev |-> dev,
     IsNested |-> Contains(path, nmSlash),
     Depth |-> Count(path, nmSlash) + 1]

\* the condition of scanner.go:53
InstallAccepted(path, pkg, packageName, version) ==
    /\ matchesPackageInPath(path, packageName)
    /\ (version = emptyStr \/ pkg.Version = version)

ReferenceAccepted_ExactVersion(depName, depVersion, packageName, version) ==
    /\ MatchesPackageName(depName, packageName)
    /\ (version = emptyStr \/ depVersion = version)

\* the condition of scanner.go:70
ReferenceAccepted(depName, depVersion, packageName, version) ==
    /\ MatchesPackageName(depName, packageName)
    /\ (version = emptyStr \/ Contains(depVersion, version))

\* the condition of scanner.go:128
LegacyAccepted(depName, dep, packageName, version) ==
    /\ MatchesPackageName(depName, packageName)
    /\ (version = emptyStr \/ dep.Version = version)

-----------------------------------------------------------------------------
(* Loops over Go maps.  `for k, v := range m` visits the keys of m in an   *)
(* order the language leaves open: Orders(S) is the set of orders.         *)

Orders(S) ==
    {o \in [1..Cardinality(S) -> S] : \A a, b \in DOMAIN o : a # b => o[a] # o[b]}

\* all concatenations x1 \o x2 \o ... with xk drawn from choices[k]
RECURSIVE ConcatChoices(_)
ConcatChoices(choices) ==
    IF choices = <<>> THEN {<<>>}
    ELSE {h \o t : h \in Head(choices), t \in ConcatChoices(Tail(choices))}

\* the install pass, scanner.go:52-65: what the loop appends, per order
InstallPass(packages, packageName, version) ==
    UNION { ConcatChoices([k \in DOMAIN order |->
                {IF InstallAccepted(order[k], packages[order[k]], packageName, version)
                 THEN <<InstallInstance(order[k], packages[order[k]].Version,
                                        packages[order[k]].Dev)>>
                 ELSE <<>>}])
            : order \in Orders(DOMAIN packages) }

\* the inner loop of the reference pass, scanner.go:69-83, for one entry
ReferencesOf(path, pkg, packageName, version) ==
    UNION { ConcatChoices([k \in DOMAIN order |->
                {IF ReferenceAccepted(order[k], pkg.Dependencies[order[k]],
                                      packageName, version)
                 THEN <<ReferenceInstance(path, pkg.Dev, order[k],
                                          pkg.Dependencies[order[k]])>>
                 ELSE <<>>}])
            : order \in Orders(DOMAIN pkg.Dependencies) }

\* the reference pass, scanner.go:68-84
ReferencePass(packages, packageName, version) ==
    UNION { ConcatChoices([k \in DOMAIN order |->
                ReferencesOf(order[k], packages[order[k]], packageName, version)])
            : order \in Orders(DOMAIN packages) }

\* scanner.go:120-125
CurrentPath(basePath, depName) ==
    IF basePath = emptyStr THEN nmPrefix \o depName
    ELSE basePath \o nmSlash \o depName

RECURSIVE searchDependenciesRecursive(_, _, _, _)

searchDependenciesRecursive_Pruning(deps, packageName, version, basePath) ==
    UNION { ConcatChoices([k \in DOMAIN order |->
                LET depName == order[k]
                    dep == deps[depName]
                    currentPath == CurrentPath(basePath, depName)
                IN  IF LegacyAccepted(depName, dep, packageName, version)
                    THEN {<<InstallInstance(currentPath, dep.Version, dep.Dev)>>}
                    ELSE searchDependenciesRecursive(
                             dep.Dependencies, packageName, version, currentPath)])
            : order \in Orders(DOMAIN deps) }

\* searchDependenciesRecursive, scanner.go:116-148: the set of slices it can
\* return (one per order of visiting each map of the tree)
searchDependenciesRecursive(deps, packageName, version, basePath) ==
    UNION { ConcatChoices([k \in DOMAIN order |->
                LET depName == order[k]
                    dep == deps[depName]
                    currentPath == CurrentPath(basePath, depName)
                    own == IF LegacyAccepted(depName, dep, packageName, version)
                           THEN <<InstallInstance(currentPath, dep.Version, dep.Dev)>>
                           ELSE <<>>
                IN  {own \o nested :
                        nested \in searchDependenciesRecursive(
                                       dep.Dependencies, packageName, version, currentPath)}])
            : order \in Orders(DOMAIN deps) }

findPackageInstancesInLock_BothMaps(lock, packageName, version) ==
    {a \o b \o c : a \in InstallPass(lock.Packages, packageName, version),
                   b \in ReferencePass(lock.Packages, packageName, version),
                   c \in searchDependenciesRecursive(lock.Dependencies, packageName,
                                                     version, emptyStr)}

\* findPackageInstancesInLock, scanner.go:46-91: the set of slices it can return
findPackageInstancesInLock(lock, packageName, version) ==
    IF lock.LockfileVersion >= 2
    THEN {a \o b : a \in InstallPass(lock.Packages, packageName, version),
                   b \in ReferencePass(lock.Packages, packageName, version)}
    ELSE searchDependenciesRecursive(lock.Dependencies, packageName, version, emptyStr)

-----------------------------------------------------------------------------
(* applyFilters, scanner.go:183-206 *)

Keeps_NoDepth(instance, cfg) ==
    /\ ~(cfg.ShowDevOnly /\ ~instance.IsDev)
    /\ ~(cfg.ShowNestedOnly /\ ~instance.IsNested)

\* the loop body of scanner.go:186-203: no `continue` is taken
Keeps(instance, cfg) ==
    /\ ~(cfg.ShowDevOnly /\ ~instance.IsDev)
    /\ ~(cfg.ShowNestedOnly /\ ~instance.IsNested)
    /\ ~(instance.Depth < cfg.MinDepth)

applyFiltersFrom_SkipFirst(insts, cfg, k, filtered) ==
    filtered \o SelectSeq(SubSeq(insts, k + 1, Len(insts)), LAMBDA x : Keeps(x, cfg))

RECURSIVE applyFiltersFrom(_, _, _, _)
applyFiltersFrom(insts, cfg, k, filtered) ==
    IF k > Len(insts) THEN filtered
    ELSE applyFiltersFrom(insts, cfg, k + 1,
             IF Keeps(insts[k], cfg) THEN Append(filtered, insts[k]) ELSE filtered)

applyFilters(insts, cfg) == applyFiltersFrom(insts, cfg, 1, <<>>)

-----------------------------------------------------------------------------
(* ScanPackages, scanner.go:17-43 *)

\* the zero value of types.ScanResult: what make([]ScanResult, n) holds
ZeroScanResult ==
    [Package |-> [Name |-> emptyStr, Version |-> emptyStr],
     Found |-> FALSE, Instances |-> <<>>, TotalInstances |-> 0]

ScanResultOf_CountBeforeFilter(query, found, cfg) ==
    [Package |-> query,
     Found |-> Len(found) > 0,
     Instances |-> applyFilters(found, cfg),
     TotalInstances |-> Len(found)]

\* scanner.go:21-37: the result built for one query from what the search found
ScanResultOf(query, found, cfg) ==
    LET filtered == applyFilters(<<>> \o found, cfg)
    IN  [Package |-> query,
         Found |-> Len(filtered) > 0,
         Instances |-> filtered,
         TotalInstances |-> Len(filtered)]

StoreResult_Append(rs, k, result) ==
    Append(rs, result)

\* scanner.go:39: results[i] = result
StoreResult(rs, k, result) ==
    [rs EXCEPT ![k] = result]

-----------------------------------------------------------------------------
(* Inputs *)

\* "node_modules/n1/node_modules/n2/..." for the package names n1, n2, ...
RECURSIVE PathOf(_)
PathOf(chain) ==
    IF chain = <<>> THEN emptyStr
    ELSE IF Len(chain) = 1 THEN nmPrefix \o chain[1]
    ELSE PathOf(SubSeq(chain, 1, Len(chain) - 1)) \o nmSlash \o chain[Len(chain)]

NoDeps == <<>>

\* keys of the `packages` map of a lockfile: the root entry "", top-level,
\* scoped and nested installs
FlatPaths ==
    {PathOf(c) : c \in {<<>>, <<typesNode>>, <<svgo>>,
                        <<express, debug>>, <<express, debug, ms>>}}

\* values of the `packages` map (types.Package).  The keys of `dependencies`
\* are whatever strings the JSON document holds: the last body has a key
\* that is no npm package name.  Entries without `dependencies` are those
\* of TestLockfiles
PackageBodies ==
    { [Version |-> v530, Dev |-> FALSE, Dependencies |-> (chalk :> caret412)],
      [Version |-> emptyStr, Dev |-> FALSE, Dependencies |-> (chalk :> caret530)],
      [Version |-> v412, Dev |-> TRUE,
       Dependencies |-> (debug :> v530) @@ (debugNmMs :> caret530)] }

\* the `packages` maps with exactly n entries
FlatMaps(n) ==
    UNION { [P -> PackageBodies] : P \in {Q \in SUBSET FlatPaths : Cardinality(Q) = n} }

\* the nodes a legacy tree may have, each named by the chain of map keys
\* that leads to it
LegacyChains ==
    {<<debug>>, <<ms>>, <<debug, ms>>, <<ms, debug>>, <<debug, ms, debug>>}

LegacyBodies ==
    { [Version |-> v530, Dev |-> FALSE], [Version |-> v412, Dev |-> TRUE] }

PrefixClosed(C) ==
    \A c \in C : Len(c) > 1 => SubSeq(c, 1, Len(c) - 1) \in C

\* the nested `dependencies` map (types.Dependency) whose nodes are the
\* chains of C below prefix, with the bodies attr gives them
RECURSIVE LegacyTree(_, _, _)
LegacyTree(C, attr, prefix) ==
    LET keys == {c[Len(c)] : c \in {d \in C : /\ Len(d) = Len(prefix) + 1
                                              /\ SubSeq(d, 1, Len(prefix)) = prefix}}
    IN  [n \in keys |->
            [Version |-> attr[Append(prefix, n)].Version,
             Dev |-> attr[Append(prefix, n)].Dev,
             Dependencies |-> LegacyTree(C, attr, Append(prefix, n))]]

\* the legacy trees with exactly n nodes
LegacyTrees(n) ==
    UNION { {LegacyTree(C, attr, <<>>) : attr \in [C -> LegacyBodies]}
            : C \in {D \in SUBSET LegacyChains : Cardinality(D) = n /\ PrefixClosed(D)} }

\* the parsed lockfiles: both maps may be present whatever lockfileVersion
\* says; together they hold at most MaxPackages entries
Lockfiles ==
    UNION { [LockfileVersion : {1, 2, 3}, Packages : FlatMaps(n), Dependencies : LegacyTrees(m)]
            : <<n, m>> \in {x \in (0..MaxPackages) \X (0..MaxPackages) :
                               x[1] + x[2] <= MaxPackages} }

QueryNames == {express, debug, node, chalk}
QueryVersions == {emptyStr, v530}
Queries ==
    [Name : QueryNames, Version : QueryVersions]
    \cup {[Name |-> vue, Version |-> v530]}

\* the queries of the query lists: one that matches installs at two depths,
\* one that matches a declared range, one that matches a scoped name and
\* one that matches nothing
ListQueries ==
    { [Name |-> express, Version |-> emptyStr], [Name |-> chalk, Version |-> v530],
      [Name |-> node, Version |-> v530], [Name |-> vue, Version |-> v530] }

QueryLists ==
    UNION { [1..n -> ListQueries] : n \in 0..MaxQueries }

FilterConfigs ==
    [ShowDevOnly : BOOLEAN, ShowNestedOnly : BOOLEAN, MinDepth : 0..MaxMinDepth]

DefaultConfig ==
    [ShowDevOnly |-> FALSE, ShowNestedOnly |-> FALSE, MinDepth |-> 0]

\* the lockfile of TestScanPackages (scanner.go:395-411), with a declared
\* dependency added to its nested entry, and a legacy lockfile
TestLockfiles ==
    { [LockfileVersion |-> 2,
       Packages |-> (PathOf(<<express>>) :>
                        [Version |-> v530, Dev |-> FALSE, Dependencies |-> NoDeps])
                 @@ (PathOf(<<typesNode>>) :>
                        [Version |-> v530, Dev |-> TRUE, Dependencies |-> NoDeps])
                 @@ (PathOf(<<express, debug>>) :>
                        [Version |-> v412, Dev |-> FALSE,
                         Dependencies |-> (chalk :> caret530)]),
       Dependencies |-> NoDeps],
      [LockfileVersion |-> 1,
       Packages |-> NoDeps,
       Dependencies |-> (debug :>
                           [Version |-> v412, Dev |-> FALSE,
                            Dependencies |-> (chalk :>
                               [Version |-> v530, Dev |-> TRUE,
                                Dependencies |-> NoDeps])])] }

\* lockfileVersion 1 lockfiles: "debug" 4.3.4 with "ms" 2.0.0 nested in it,
\* and a tree where "ms" also is an ancestor of that "debug"
LegacyLockfiles ==
    { [LockfileVersion |-> 1,
       Packages |-> NoDeps,
       Dependencies |-> LegacyTree({<<debug>>, <<debug, ms>>},
                                   (<<debug>> :> [Version |-> v434, Dev |-> FALSE])
                                   @@ (<<debug, ms>> :> [Version |-> v200, Dev |-> FALSE]),
                                   <<>>)],
      [LockfileVersion |-> 1,
       Packages |-> NoDeps,
       Dependencies |-> LegacyTree({<<ms>>, <<ms, debug>>, <<ms, debug, ms>>},
                                   (<<ms>> :> [Version |-> v200, Dev |-> FALSE])
                                   @@ (<<ms, debug>> :> [Version |-> v434, Dev |-> FALSE])
                                   @@ (<<ms, debug, ms>> :> [Version |-> v200, Dev |-> TRUE]),
                                   <<>>)] }

LegacyQueries ==
    { [Name |-> ms, Version |-> v200], [Name |-> ms, Version |-> emptyStr],
      [Name |-> debug, Version |-> v434] }

\* what ScanPackages is called with: any lockfile with one query and the
\* default filters, a test lockfile with any query list and any filters, or
\* a lockfileVersion 1 lockfile with one query and the default filters
ScanInputs ==
    (Lockfiles \X {<<q>> : q \in Queries} \X {DefaultConfig})
    \cup (TestLockfiles \X QueryLists \X FilterConfigs)
    \cup (LegacyLockfiles \X {<<q>> : q \in LegacyQueries} \X {DefaultConfig})

Idle == <<>>

Init ==
    /\ \E in \in ScanInputs :
          /\ packageLock = in[1]
          /\ queries = in[2]
          /\ config = in[3]
    /\ pc = "loop"
    /\ i = 1
    /\ instances = <<>>
    \* scanner.go:18
    /\ results = [k \in 1..Len(queries) |-> ZeroScanResult]
    /\ args = Idle
    /\ ret = Idle

\* scanner.go:20: the loop goes on to the next query
NextQuery ==
    /\ pc = "loop"
    /\ i <= Len(queries)
    /\ pc' = "find"
    /\ UNCHANGED <<packageLock, queries, config, i, instances, results, args, ret>>

\* scanner.go:28: instances := findPackageInstancesInLock(...)
FindInstances ==
    /\ pc = "find"
    /\ \E found \in findPackageInstancesInLock(packageLock, queries[i].Name,
                                               queries[i].Version) :
          instances' = found
    /\ pc' = "filter"
    /\ UNCHANGED <<packageLock, queries, config, i, results, args, ret>>

\* scanner.go:30-39: copy, filter, count and store the result
FilterAndStore ==
    /\ pc = "filter"
    /\ results' = StoreResult(results, i, ScanResultOf(queries[i], instances, config))
    /\ i' = i + 1
    /\ pc' = "loop"
    /\ UNCHANGED <<packageLock, queries, config, instances, args, ret>>

\* scanner.go:42: return results
Return ==
    /\ pc = "loop"
    /\ i > Len(queries)
    /\ pc' = "done"
    /\ UNCHANGED <<packageLock, queries, config, i, instances, results, args, ret>>

Next == NextQuery \/ FindInstances \/ FilterAndStore \/ Return

Spec == Init /\ [][Next]_vars

\* ScanPackages called twice with the same lockfile, query list and filter
\* config: a test lockfile with any query list, or a lockfileVersion 1
\* lockfile with one query, and the default filters
ScanTwiceInputs ==
    (TestLockfiles \X QueryLists \X {DefaultConfig})
    \cup (LegacyLockfiles \X {<<q>> : q \in LegacyQueries} \X {DefaultConfig})

InitScanTwice ==
    /\ \E in \in ScanTwiceInputs :
          /\ packageLock = in[1]
          /\ queries = in[2]
          /\ config = in[3]
    /\ pc = "loop"
    /\ i = 1
    /\ instances = <<>>
    /\ results = [k \in 1..Len(queries) |-> ZeroScanResult]
    /\ args = Idle
    /\ ret = <<>>

\* the caller keeps the slice the first call returned and calls ScanPackages
\* again with the same arguments (scanner.go:17-18 of the second call)
CallScanPackagesAgain ==
    /\ pc = "done"
    /\ Len(ret) = 0
    /\ ret' = <<results>>
    /\ results' = [k \in 1..Len(queries) |-> ZeroScanResult]
    /\ i' = 1
    /\ instances' = <<>>
    /\ pc' = "loop"
    /\ UNCHANGED <<packageLock, queries, config, args>>

NextScanTwice == Next \/ CallScanPackagesAgain

SpecScanTwice == InitScanTwice /\ [][NextScanTwice]_vars

-----------------------------------------------------------------------------
(* Direct calls of MatchesPackageName and of applyFilters *)

NameAlphabet == {"@", "/", "a", "b"}

\* the strings over NameAlphabet of at most MaxNameLen characters, and the
\* names of TestMatchesPackageName (scanner.go:223-258)
MatchNames ==
    UNION { [1..n -> NameAlphabet] : n \in 0..MaxNameLen }
    \cup {react, reactDom, node, typesNode, vue}

InitMatch ==
    /\ args \in [packageName : MatchNames, queryName : MatchNames]
    /\ ret = FALSE
    /\ pc = "call"
    /\ packageLock = Idle
    /\ queries = <<>>
    /\ config = DefaultConfig
    /\ i = 0
    /\ instances = <<>>
    /\ results = <<>>

CallMatchesPackageName ==
    /\ pc = "call"
    /\ ret' = MatchesPackageName(args.packageName, args.queryName)
    /\ pc' = "returned"
    /\ UNCHANGED <<packageLock, queries, config, i, instances, results, args>>

SpecMatch == InitMatch /\ [][CallMatchesPackageName]_vars

\* a types.PackageInstance literal like those of TestApplyFilters
\* (scanner.go:319-323): the other fields are zero
FilterInstance(version, dev, nested, depth) ==
    [Version |-> version, Path |-> emptyStr, LineNumber |-> 0,
     IsReference |-> FALSE, ReferenceType |-> "", IsDev |-> dev,
     IsNested |-> nested, Depth |-> depth]

FilterInstances ==
    { FilterInstance(v530, TRUE, FALSE, 0),
      FilterInstance(v412, FALSE, TRUE, 1),
      FilterInstance(caret530, TRUE, TRUE, 2),
      FilterInstance(caret412, FALSE, FALSE, 1),
      FilterInstance(emptyStr, FALSE, TRUE, 2) }

InitFilter ==
    /\ args \in [instances : UNION { [1..n -> FilterInstances] : n \in 0..MaxInstances },
                 config : FilterConfigs]
    /\ ret = <<>>
    /\ pc = "call"
    /\ packageLock = Idle
    /\ queries = <<>>
    /\ config = DefaultConfig
    /\ i = 0
    /\ instances = <<>>
    /\ results = <<>>

\* applyFilters builds its result in a fresh slice (scanner.go:184, 202):
\* the caller's slice is what it was
CallApplyFilters ==
    /\ pc = "call"
    /\ ret' = applyFilters(args.instances, args.config)
    /\ pc' = "returned"
    /\ UNCHANGED <<packageLock, queries, config, i, instances, results, args>>

SpecFilter == InitFilter /\ [][CallApplyFilters]_vars

\* applyFilters called on its own result with the same config, as in
\* applyFilters(applyFilters(x, cfg), cfg)
CallApplyFiltersAgain ==
    /\ pc = "returned"
    /\ ret' = applyFilters(ret, args.config)
    /\ pc' = "again"
    /\ UNCHANGED <<packageLock, queries, config, i, instances, results, args>>

NextFilterTwice == CallApplyFilters \/ CallApplyFiltersAgain

SpecFilterTwice == InitFilter /\ [][NextFilterTwice]_vars

-----------------------------------------------------------------------------
(* parsePackageQuery, main.go:188-206.  The result is the pair the function *)
(* returns: the PackageQuery and whether the error is non-nil.              *)

\* types.PackageQuery{}
ZeroPackageQuery == [Name |-> emptyStr, Version |-> emptyStr]

parsePackageQuery_NoScope(input) ==
    LET parts == Split(input, at)
    IN  IF Len(parts) < 2
        THEN [query |-> ZeroPackageQuery, err |-> TRUE]
        ELSE [query |-> [Name |-> parts[1], Version |-> Join(Tail(parts), at)],
              err |-> FALSE]

parsePackageQuery(input) ==
    LET parts == Split(input, at)
    IN  IF Len(parts) < 2
        THEN [query |-> ZeroPackageQuery, err |-> TRUE]
        \* Handle scoped packages like @types/node@1.0.0
        ELSE IF HasPrefix(input, at) /\ Len(parts) >= 3
        THEN [query |-> [Name |-> at \o parts[2],
                         Version |-> Join(SubSeq(parts, 3, Len(parts)), at)],
              err |-> FALSE]
        ELSE [query |-> [Name |-> parts[1], Version |-> Join(Tail(parts), at)],
              err |-> FALSE]

InputAlphabet == {"@", "/", "a", "1"}

\* the strings over InputAlphabet of at most MaxInputLen characters, the
\* inputs of TestParsePackageQuery (main_test.go:18-58) and a scoped name
\* without a version
ParseInputs ==
    UNION { [1..n -> InputAlphabet] : n \in 0..MaxInputLen }
    \cup { react \o at \o v1820, typesNode \o at \o v1800, package \o at \o caret123,
           react, package \o at \o v100 \o at \o beta, typesNode }

InitParse ==
    /\ args \in [input : ParseInputs]
    /\ ret = Idle
    /\ pc = "call"
    /\ packageLock = Idle
    /\ queries = <<>>
    /\ config = DefaultConfig
    /\ i = 0
    /\ instances = <<>>
    /\ results = <<>>

CallParsePackageQuery ==
    /\ pc = "call"
    /\ ret' = parsePackageQuery(args.input)
    /\ pc' = "returned"
    /\ UNCHANGED <<packageLock, queries, config, i, instances, results, args>>

SpecParse == InitParse /\ [][CallParsePackageQuery]_vars

-----------------------------------------------------------------------------
(* OutputTable, package output.  What it prints is modelled as the list of  *)
(* its lines: a row of the table is a record of its seven columns, any      *)
(* other line a record naming its text.  The Status and Dev columns are     *)
(* written without their pictographs, "Y" standing for the check mark.      *)

dash == <<"-">>
notFound == <<"N", "o", "t", " ", "F", "o", "u", "n", "d">>
notDetected ==
    <<"P", "a", "c", "k", "a", "g", "e", " ", "n", "o", "t", " ", "d", "e", "t",
      "e", "c", "t", "e", "d", " ", "i", "n", " ", "p", "r", "o", "j", "e", "c", "t">>
totalSuffix == <<" ", "t", "o", "t", "a", "l", ")">>
Digits == <<"0", "1", "2", "3", "4", "5", "6", "7", "8", "9">>

\* fmt.Sprintf("%d", n) for n >= 0
RECURSIVE Itoa(_)
Itoa(n) ==
    IF n < 10 THEN <<Digits[n + 1]>>
    ELSE Itoa(n \div 10) \o <<Digits[(n % 10) + 1]>>

\* the row of a query that was not found
SafeRow(result) ==
    [Package |-> result.Package.Name, TargetVer |-> result.Package.Version,
     Status |-> "SAFE", FoundVer |-> notFound, Dev |-> "-", Line |-> dash,
     Path |-> notDetected]

\* Determine security status
StatusOf(instance) ==
    IF instance.IsReference THEN "REF" ELSE "RISK"

\* the row of one instance; isFirst is `first && i == 0`
InstanceRow(result, version, instance, isFirst) ==
    [Package |-> IF isFirst THEN result.Package.Name ELSE emptyStr,
     TargetVer |-> IF isFirst THEN result.Package.Version ELSE emptyStr,
     Status |-> StatusOf(instance),
     FoundVer |-> version,
     Dev |-> IF instance.IsDev THEN "Y" ELSE "-",
     Line |-> IF instance.LineNumber > 0 THEN <<"L">> \o Itoa(instance.LineNumber)
              ELSE dash,
     Path |-> instance.Path]

HasTotalRow(result) == result.TotalInstances > 1

TotalRow(result) ==
    [Package |-> emptyStr, TargetVer |-> emptyStr, Status |-> "",
     FoundVer |-> <<"(">> \o Itoa(result.TotalInstances) \o totalSuffix,
     Dev |-> "", Line |-> emptyStr, Path |-> emptyStr]

ShowsSafeRow_ShowSafeOnly(outputConfig) == outputConfig.ShowSafe

\* Only show safe packages if showSafe is true and riskOnly is false
ShowsSafeRow(outputConfig) == outputConfig.ShowSafe /\ ~outputConfig.RiskOnly

\* versionGroups[version]: the instances of that version, in their order
VersionGroup(insts, version) ==
    SelectSeq(insts, LAMBDA x : x.Version = version)

\* the rows of a found result when the groups are visited in `order`
RECURSIVE GroupRows(_, _, _, _)
GroupRows(result, order, g, first) ==
    IF g > Len(order) THEN <<>>
    ELSE LET group == VersionGroup(result.Instances, order[g])
         IN  [k \in 1..Len(group) |->
                 InstanceRow(result, order[g], group[k], first /\ k = 1)]
             \o GroupRows(result, order, g + 1, first /\ Len(group) = 0)

\* what the loop body prints for one result: one list of lines per order of
\* visiting the map versionGroups
ResultRows(result, outputConfig) ==
    IF ~result.Found
    THEN {IF ShowsSafeRow(outputConfig) THEN <<SafeRow(result)>> ELSE <<>>}
    ELSE {GroupRows(result, order, 1, TRUE)
             \o (IF HasTotalRow(result) THEN <<TotalRow(result)>> ELSE <<>>)
          : order \in Orders({result.Instances[k].Version :
                                 k \in DOMAIN result.Instances})}

\* Security Summary
SummaryLines(rs) ==
    LET totalRisks == Cardinality({k \in DOMAIN rs : rs[k].Found})
        totalSafe == Cardinality({k \in DOMAIN rs : ~rs[k].Found})
    IN  << [Text |-> "equals"],
           [Text |-> "summary", Risks |-> totalRisks, Safe |-> totalSafe],
           IF totalRisks > 0 THEN [Text |-> "warning", Risks |-> totalRisks]
           ELSE [Text |-> "good"] >>

\* OutputTable: the lists of lines it can print
OutputTable(rs, outputConfig) ==
    { <<[Text |-> "header"], [Text |-> "dashes"]>> \o body \o SummaryLines(rs)
      : body \in ConcatChoices([k \in DOMAIN rs |->
                                   ResultRows(rs[k], outputConfig)]) }

OutputConfigs == [ShowSafe : BOOLEAN, RiskOnly : BOOLEAN]

\* the flags' defaults: --show-safe true, --risk-only false
DefaultOutputConfig == [ShowSafe |-> TRUE, RiskOnly |-> FALSE]

\* results as ScanPackages builds them: of a query that was not found, of
\* one install, of one reference, of two installs of one version, and of
\* an install, a reference and a dev install of two versions
TableResults ==
    { ScanResultOf([Name |-> vue, Version |-> v530], <<>>, DefaultConfig),
      ScanResultOf([Name |-> express, Version |-> v530],
                   <<InstallInstance(PathOf(<<express>>), v530, FALSE)>>, DefaultConfig),
      ScanResultOf([Name |-> chalk, Version |-> v530],
                   <<ReferenceInstance(PathOf(<<svgo>>), FALSE, chalk, caret530)>>,
                   DefaultConfig),
      ScanResultOf([Name |-> debug, Version |-> v412],
                   <<InstallInstance(PathOf(<<debug>>), v412, FALSE),
                     InstallInstance(PathOf(<<express, debug>>), v412, FALSE)>>,
                   DefaultConfig),
      ScanResultOf([Name |-> debug, Version |-> emptyStr],
                   <<InstallInstance(PathOf(<<debug>>), v412, FALSE),
                     ReferenceInstance(PathOf(<<svgo>>), FALSE, debug, v530),
                     InstallInstance(PathOf(<<express, debug>>), v412, TRUE)>>,
                   DefaultConfig) }

InitTable ==
    /\ args \in [results : UNION { [1..n -> TableResults] : n \in 0..MaxQueries },
                 config : OutputConfigs]
    /\ ret = <<>>
    /\ pc = "call"
    /\ packageLock = Idle
    /\ queries = <<>>
    /\ config = DefaultConfig
    /\ i = 0
    /\ instances = <<>>
    /\ results = <<>>

\* ret is what the call has printed
CallOutputTable ==
    /\ pc = "call"
    /\ ret' \in OutputTable(args.results, args.config)
    /\ pc' = "returned"
    /\ UNCHANGED <<packageLock, queries, config, i, instances, results, args>>

SpecTable == InitTable /\ [][CallOutputTable]_vars

-----------------------------------------------------------------------------
(* runScan, main.go:90-186: one run of the command.  `args` holds what the  *)
(* run is given (command line, flags, files), `ret` what it has done so     *)
(* far: packagesToScan, the messages on stderr, the lines on stdout,        *)
(* whether ScanPackages was called, and the exit status once pc = "exited". *)
(* packageQueries, packageLock, filterConfig and results are the variables  *)
(* queries, packageLock, config and results; the call of ScanPackages runs  *)
(* the actions of ScanPackages above.                                       *)

\* a query-list file that is not given, cannot be read, is not a JSON
\* array of strings, or holds the strings `packages`
FileOf(state, packages) == [state |-> state, packages |-> packages]

readPackagesFromFile_EmptyOnError(file) ==
    [packages |-> file.packages, err |-> FALSE]

\* readPackagesFromFile, main.go:223-241
readPackagesFromFile(file) ==
    IF file.state = "ok"
    THEN [packages |-> file.packages, err |-> FALSE]
    ELSE [packages |-> <<>>, err |-> TRUE]

\* types.PackageLock{}
ZeroPackageLock ==
    [LockfileVersion |-> 0, Packages |-> NoDeps, Dependencies |-> NoDeps]

readPackageLock_ZeroOnError(file) ==
    IF file.state = "ok"
    THEN [packageLock |-> file.lock, err |-> FALSE]
    ELSE [packageLock |-> ZeroPackageLock, err |-> FALSE]

\* readPackageLock, main.go:208-220
readPackageLock(file) ==
    IF file.state = "ok"
    THEN [packageLock |-> file.lock, err |-> FALSE]
    ELSE [packageLock |-> Idle, err |-> TRUE]

ParsePackages_StopAtError(packagesToScan, k, packageQueries, stderr) ==
    LET bad == {j \in k..Len(packagesToScan) : parsePackageQuery(packagesToScan[j]).err}
        stop == IF bad = {} THEN Len(packagesToScan) + 1
                ELSE CHOOSE j \in bad : \A h \in bad : j <= h
    IN  [packageQueries |->
             packageQueries \o [j \in 1..(stop - k) |->
                                   parsePackageQuery(packagesToScan[k + j - 1]).query],
         stderr |->
             IF bad = {} THEN stderr
             ELSE Append(stderr, [Error |-> "parsing package",
                                  pkg |-> packagesToScan[stop]])]

\* the loop of main.go:123-130 from index k on: the queries it appends and
\* the messages it prints
RECURSIVE ParsePackages(_, _, _, _)
ParsePackages(packagesToScan, k, packageQueries, stderr) ==
    IF k > Len(packagesToScan)
    THEN [packageQueries |-> packageQueries, stderr |-> stderr]
    ELSE LET parsed == parsePackageQuery(packagesToScan[k])
         IN  IF parsed.err
             THEN ParsePackages(packagesToScan, k + 1, packageQueries,
                      Append(stderr, [Error |-> "parsing package",
                                      pkg |-> packagesToScan[k]]))
             ELSE ParsePackages(packagesToScan, k + 1,
                      Append(packageQueries, parsed.query), stderr)

\* the query strings of a run: one that names a declared dependency of the
\* lockfile, one with an empty version that names an entry of it, one
\* without "@"
MainTokens == {chalk \o at \o v530, svgo \o at, react}

FileStates == {"none", "unreadable", "invalid", "ok"}

\* the four sources of query strings, main.go:96-120: `tokens` cut at c[1],
\* c[2], c[3] into the strings of the positional JSON file, of
\* --packages-file, of --packages and of the remaining arguments; a file
\* that is not given or not usable holds none
SourcesOf(tokens, c, jsonState, fileState) ==
    [jsonArg |-> FileOf(jsonState, SubSeq(tokens, 1, c[1])),
     packagesFile |-> FileOf(fileState, SubSeq(tokens, c[1] + 1, c[2])),
     packagesFlag |-> SubSeq(tokens, c[2] + 1, c[3]),
     rest |-> SubSeq(tokens, c[3] + 1, Len(tokens))]

StatesFor(n) == IF n = 0 THEN FileStates ELSE {"ok"}

\* the sources that hold at most max query strings together
Sources(max) ==
    UNION { UNION { { SourcesOf(tokens, c, a, b) :
                         tokens \in [1..n -> MainTokens],
                         a \in StatesFor(c[1]), b \in StatesFor(c[2] - c[1]) }
                    : c \in {d \in (0..n) \X (0..n) \X (0..n) :
                                d[1] <= d[2] /\ d[2] <= d[3]} }
            : n \in 0..max }

\* a lockfile whose one entry "node_modules/svgo" declares the dependency
\* "chalk": "^5.3.0"
SvgoLockfile ==
    [LockfileVersion |-> 3,
     Packages |-> (PathOf(<<svgo>>) :>
                      [Version |-> v412, Dev |-> FALSE,
                       Dependencies |-> (chalk :> caret530)]),
     Dependencies |-> NoDeps]

\* the file --file names: a lockfile, or a file that is missing or no JSON
\* document
GoodLockfiles == { [state |-> "ok", lock |-> SvgoLockfile] }

LockfileStates ==
    { [state |-> "missing", lock |-> Idle], [state |-> "invalid", lock |-> Idle] }
    \cup GoodLockfiles

OutputFormats == {"table", "json", "xml"}

RunInput(src, lf, fmt, sid) ==
    [sources |-> src, lockfile |-> lf, outputFormat |-> fmt, searchInDeps |-> sid]

\* the runs of at most one query string with any lockfile, any --output and
\* any --search-in-deps
FlagRunInputs ==
    { RunInput(src, lf, fmt, sid) :
         src \in Sources(1), lf \in LockfileStates,
         fmt \in OutputFormats, sid \in BOOLEAN }

\* the runs: any sources with a good lockfile and the defaults of --output
\* and --search-in-deps, or the runs of FlagRunInputs; the filter and display
\* flags keep their defaults
RunInputs ==
    { RunInput(src, lf, "table", TRUE) : src \in Sources(MaxTokens), lf \in GoodLockfiles }
    \cup FlagRunInputs

\* the state when runScan is entered with one of the given runs
InitRun(inputs) ==
    /\ args \in inputs
    /\ ret = [packagesToScan |-> <<>>, stderr |-> <<>>, stdout |-> <<>>,
              scanned |-> FALSE, exitCode |-> 0]
    /\ pc = "positional"
    /\ packageLock = Idle
    /\ queries = <<>>
    /\ config = DefaultConfig
    /\ i = 0
    /\ instances = <<>>
    /\ results = <<>>

InitMain == InitRun(RunInputs)

\* fmt.Fprintf(os.Stderr, ...); os.Exit(1)
Exit1(message) ==
    /\ ret' = [ret EXCEPT !.stderr = Append(@, message), !.exitCode = 1]
    /\ pc' = "exited"

\* main.go:96-104
ReadPositionalFile ==
    /\ pc = "positional"
    /\ IF args.sources.jsonArg.state = "none"
       THEN pc' = "packagesFile" /\ ret' = ret
       ELSE LET read == readPackagesFromFile(args.sources.jsonArg)
            IN  IF read.err
                THEN Exit1([Error |-> "reading packages file"])
                ELSE /\ ret' = [ret EXCEPT !.packagesToScan = @ \o read.packages]
                     /\ pc' = "packagesFile"
    /\ UNCHANGED <<packageLock, queries, config, i, instances, results, args>>

\* main.go:107-120
ReadPackagesFile ==
    /\ pc = "packagesFile"
    /\ LET read == IF args.sources.packagesFile.state = "none"
                   THEN [packages |-> <<>>, err |-> FALSE]
                   ELSE readPackagesFromFile(args.sources.packagesFile)
       IN  IF read.err
           THEN Exit1([Error |-> "reading packages file"])
           ELSE /\ ret' = [ret EXCEPT !.packagesToScan =
                                @ \o read.packages \o args.sources.packagesFlag
                                  \o args.sources.rest]
                /\ pc' = "parse"
    /\ UNCHANGED <<packageLock, queries, config, i, instances, results, args>>

\* main.go:123-139
ParseQueries ==
    /\ pc = "parse"
    /\ LET parsed == ParsePackages(ret.packagesToScan, 1, <<>>, ret.stderr)
       IN  /\ queries' = parsed.packageQueries
           /\ IF Len(parsed.packageQueries) = 0
              THEN /\ ret' = [ret EXCEPT
                                !.stderr = Append(parsed.stderr,
                                                  [Error |-> "no packages specified"]),
                                !.exitCode = 1]
                   /\ pc' = "exited"
              ELSE /\ ret' = [ret EXCEPT !.stderr = parsed.stderr]
                   /\ pc' = "lockfile"
    /\ UNCHANGED <<packageLock, config, i, instances, results, args>>

\* main.go:142-171
ReadLockfile ==
    /\ pc = "lockfile"
    /\ IF args.lockfile.state = "missing"
       THEN /\ Exit1([Error |-> "package-lock.json not found"])
            /\ UNCHANGED <<packageLock, config>>
       ELSE LET read == readPackageLock(args.lockfile)
            IN  IF read.err
                THEN /\ Exit1([Error |-> "reading package-lock.json"])
                     /\ UNCHANGED <<packageLock, config>>
                ELSE /\ packageLock' = read.packageLock
                     /\ config' = DefaultConfig
                     /\ pc' = "scan"
                     /\ ret' = ret
    /\ UNCHANGED <<queries, i, instances, results, args>>

\* main.go:174: ScanPackages is entered (scanner.go:17-18)
CallScanPackages ==
    /\ pc = "scan"
    /\ ret' = [ret EXCEPT !.scanned = TRUE]
    /\ results' = [k \in 1..Len(queries) |-> ZeroScanResult]
    /\ i' = 1
    /\ pc' = "loop"
    /\ UNCHANGED <<packageLock, queries, config, instances, args>>

\* main.go:177-185, ScanPackages having returned
Output ==
    /\ pc = "done"
    /\ \/ /\ args.outputFormat = "json"
          /\ ret' = [ret EXCEPT !.stdout = <<[Text |-> "json", Value |-> results]>>]
          /\ pc' = "exited"
       \/ /\ args.outputFormat = "table"
          /\ \E lines \in OutputTable(results, DefaultOutputConfig) :
                ret' = [ret EXCEPT !.stdout = lines]
          /\ pc' = "exited"
       \/ /\ args.outputFormat \notin {"json", "table"}
          /\ Exit1([Error |-> "unknown output format"])
    /\ UNCHANGED <<packageLock, queries, config, i, instances, results, args>>

NextMain ==
    \/ ReadPositionalFile
    \/ ReadPackagesFile
    \/ ParseQueries
    \/ ReadLockfile
    \/ CallScanPackages
    \/ NextQuery
    \/ FindInstances
    \/ FilterAndStore
    \/ Return
    \/ Output

SpecMain == InitMain /\ [][NextMain]_vars

InitMainFair == InitRun(FlagRunInputs)

\* the process runs until it exits: no step that is enabled is put off forever
SpecMainFair == InitMainFair /\ [][NextMain]_vars /\ WF_vars(NextMain)

-----------------------------------------------------------------------------
(* Properties of ScanPackages *)

\* C1: in every ScanResult of ScanPackages, TotalInstances is the number of
\* instances left in Instances after filtering, and Found is true exactly
\* when TotalInstances > 0.
ResultCountsAreConsistent ==
    \A k \in DOMAIN results :
        /\ results[k].TotalInstances = Len(results[k].Instances)
        /\ results[k].Found = (results[k].TotalInstances > 0)

\* ScanPackages has returned, and the filters removed some but not all of
\* the instances found for the last query
FilteredResultReturned ==
    /\ pc = "done"
    /\ Len(queries) > 0
    /\ results[Len(queries)].Found
    /\ results[Len(queries)].TotalInstances < Len(instances)

\* C2: ScanPackages returns one ScanResult per query, in input order: as
\* many results as queries, the k-th result's Package being the k-th query
\* (duplicates included), and no result for an empty query list.
OneResultPerQueryInOrder ==
    pc = "done" =>
        /\ Len(results) = Len(queries)
        /\ \A k \in 1..Len(queries) : results[k].Package = queries[k]
        /\ (queries = <<>> => results = <<>>)

\* ScanPackages has returned the results of a list that names one query twice
DuplicateQueriesReturned ==
    /\ pc = "done"
    /\ Len(queries) = 2
    /\ queries[1] = queries[2]
    /\ results[1].Found

-----------------------------------------------------------------------------
(* Properties of MatchesPackageName *)

StartsWithAt(name) == Len(name) > 0 /\ name[1] = "@"

SlashPositions(name) == {k \in 1..Len(name) : name[k] = "/"}

\* the part of a name with a single "/" that follows the "/"
AfterSlash(name) ==
    LET k == CHOOSE j \in SlashPositions(name) : TRUE
    IN  [j \in 1..(Len(name) - k) |-> name[k + j]]

IsSubstring(short, long) ==
    \E from \in 1..(Len(long) - Len(short) + 1) :
        \A j \in 1..Len(short) : long[from + j - 1] = short[j]

\* rule 2 with `scoped` the name that begins with "@"
ScopeStripped(scoped, other) ==
    /\ StartsWithAt(scoped)
    /\ ~StartsWithAt(other)
    /\ Cardinality(SlashPositions(scoped)) = 1
    /\ AfterSlash(scoped) = other

MatchRules(candidate, query) ==
    \/ candidate = query
    \/ ScopeStripped(candidate, query)
    \/ ScopeStripped(query, candidate)
    \/ IsSubstring(candidate, query)
    \/ IsSubstring(query, candidate)

MatchExamples ==
    { <<typesNode, node, TRUE>>, <<node, typesNode, TRUE>>,
      <<reactDom, react, TRUE>>, <<react, reactDom, TRUE>>,
      <<vue, react, FALSE>> }

\* C3: MatchesPackageName(candidate, query) is true exactly when the names
\* are equal, or exactly one begins with "@", has a single "/" and the part
\* after the "/" is the other name, or one name is a substring of the other;
\* so it is reflexive, and it gives the listed results on the listed names.
MatchesExactlyByTheThreeRules ==
    pc = "returned" =>
        /\ ret = MatchRules(args.packageName, args.queryName)
        /\ (args.packageName = args.queryName => ret)
        /\ \A e \in MatchExamples :
              (args.packageName = e[1] /\ args.queryName = e[2]) => ret = e[3]

\* the scoped candidate "@types/node" was matched against the query "node"
ScopedNameMatched ==
    /\ pc = "returned"
    /\ args.packageName = typesNode
    /\ args.queryName = node
    /\ ret

-----------------------------------------------------------------------------
(* Properties of applyFilters *)

KeepRule(instance, cfg) ==
    /\ (~cfg.ShowDevOnly \/ instance.IsDev)
    /\ (~cfg.ShowNestedOnly \/ instance.IsNested)
    /\ instance.Depth >= cfg.MinDepth

\* the positions of insts, in increasing order, whose instances cfg keeps
RECURSIVE KeptPositions(_, _, _)
KeptPositions(insts, cfg, k) ==
    IF k > Len(insts) THEN <<>>
    ELSE (IF KeepRule(insts[k], cfg) THEN <<k>> ELSE <<>>)
         \o KeptPositions(insts, cfg, k + 1)

\* C10: applyFilters returns the order-preserving subsequence of its input
\* holding an instance iff (!ShowDevOnly or IsDev) and (!ShowNestedOnly or
\* IsNested) and Depth >= MinDepth; the input is not modified; the default
\* config keeps every instance.
FilterKeepsExactlyTheRuleInOrder ==
    [][ (pc = "call" /\ pc' = "returned") =>
          LET kept == KeptPositions(args.instances, args.config, 1)
          IN  /\ ret' = [j \in 1..Len(kept) |-> args.instances[kept[j]]]
              /\ args' = args
              /\ (args.config = DefaultConfig => ret' = args.instances) ]_vars

\* applyFilters returned two of three instances
FilterDroppedOneOfThree ==
    /\ pc = "returned"
    /\ Len(args.instances) = 3
    /\ Len(ret) = 2
    /\ ret[1] # ret[2]

\* C11: applyFilters is idempotent: applied with the same config to its own
\* result, it returns that result unchanged.
FilterIsIdempotent ==
    [][ (pc = "returned" /\ pc' = "again") => ret' = ret ]_vars

\* applyFilters was applied twice to a list from which the first application
\* dropped some instances and kept others
FilteredTwice ==
    /\ pc = "again"
    /\ Len(ret) > 0
    /\ Len(ret) < Len(args.instances)

-----------------------------------------------------------------------------
(* Properties of findPackageInstancesInLock.  They are read off `instances` *)
(* right after the search for queries[i] (pc = "filter").                   *)

\* "node_modules/express"
pathExpress ==
    <<"n", "o", "d", "e", "_", "m", "o", "d", "u", "l", "e", "s", "/", "e",
      "x", "p", "r", "e", "s", "s">>

\* "node_modules/express/node_modules/debug"
pathExpressDebug ==
    <<"n", "o", "d", "e", "_", "m", "o", "d", "u", "l", "e", "s", "/", "e",
      "x", "p", "r", "e", "s", "s", "/", "n", "o", "d", "e", "_", "m", "o",
      "d", "u", "l", "e", "s", "/", "d", "e", "b", "u", "g">>

\* "node_modules/svgo"
pathSvgo ==
    <<"n", "o", "d", "e", "_", "m", "o", "d", "u", "l", "e", "s", "/", "s",
      "v", "g", "o">>

\* "node_modules/svgo -> chalk"
pathSvgoToChalk ==
    <<"n", "o", "d", "e", "_", "m", "o", "d", "u", "l", "e", "s", "/", "s",
      "v", "g", "o", " ", "-", ">", " ", "c", "h", "a", "l", "k">>

Searched == pc = "filter"

FlatSearched == Searched /\ packageLock.LockfileVersion >= 2

InstanceSet == {instances[k] : k \in DOMAIN instances}

\* how many instances of the search are installs at `path`
InstallsAt(path) ==
    Cardinality({k \in DOMAIN instances :
                    ~instances[k].IsReference /\ instances[k].Path = path})

\* how many instances of the search are references of `path` to `depName`
ReferencesAt(path, depName) ==
    Cardinality({k \in DOMAIN instances :
                    /\ instances[k].IsReference
                    /\ instances[k].Path = path \o arrow \o depName})

\* the (path, depName) pairs of the `dependencies` maps of the lockfile
DeclaredPairs ==
    {pd \in (DOMAIN packageLock.Packages)
            \X (UNION {DOMAIN packageLock.Packages[p].Dependencies :
                          p \in DOMAIN packageLock.Packages}) :
        pd[2] \in DOMAIN packageLock.Packages[pd[1]].Dependencies}

\* the positions of the "node_modules" components of a path that another
\* component follows
SegmentStarts(parts) ==
    {k \in 1..(Len(parts) - 1) : parts[k] = node_modules}

\* the package name of the segment at k: two components for "@scope/name"
SegmentName(parts, k) ==
    IF StartsWithAt(parts[k + 1]) /\ k + 2 <= Len(parts)
    THEN parts[k + 1] \o <<"/">> \o parts[k + 2]
    ELSE parts[k + 1]

TerminalNameAccepted(path, queryName) ==
    LET parts == Split(path, <<"/">>)
        starts == SegmentStarts(parts)
    IN  /\ starts # {}
        /\ MatchRules(SegmentName(parts, CHOOSE k \in starts : \A h \in starts : h <= k),
                      queryName)

SomeNameOnPathAccepted(path, queryName) ==
    LET parts == Split(path, <<"/">>)
    IN  \E k \in SegmentStarts(parts) : MatchRules(SegmentName(parts, k), queryName)

InstallVersionRule(entryVersion, versionSpec) ==
    versionSpec = <<>> \/ entryVersion = versionSpec

ReferenceVersionRule(range, versionSpec) ==
    versionSpec = <<>> \/ IsSubstring(versionSpec, range)

\* C4, as claimed: for lockfileVersion >= 2 an entry yields an install
\* instance for a query only if the terminal package name of its path is
\* accepted by the Name Matcher; an intermediate package does not count.
InstallOnlyIfTerminalNameAccepted ==
    FlatSearched =>
        \A inst \in InstanceSet :
            ~inst.IsReference => TerminalNameAccepted(inst.Path, queries[i].Name)

\* C4, as amended: for lockfileVersion >= 2 an entry yields an install
\* instance for a query only if the package name after some "node_modules"
\* component of its path, terminal or intermediate, is accepted by the Name
\* Matcher; so "node_modules/express/node_modules/debug" yields an install
\* instance for the query name "express" when the version test passes, and
\* a path without a "node_modules/<name>" segment never yields one.
InstallOnlyIfSomeNameOnPathAccepted ==
    FlatSearched =>
        /\ \A inst \in InstanceSet :
              ~inst.IsReference =>
                  /\ inst.Path \in DOMAIN packageLock.Packages
                  /\ SomeNameOnPathAccepted(inst.Path, queries[i].Name)
                  /\ inst.Path # <<>>
        /\ ( /\ pathExpressDebug \in DOMAIN packageLock.Packages
             /\ queries[i].Name = express
             /\ InstallVersionRule(packageLock.Packages[pathExpressDebug].Version,
                                   queries[i].Version) )
           => InstallsAt(pathExpressDebug) = 1

\* the entry "node_modules/express/node_modules/debug" was reported as an
\* install for the query name "express"
IntermediateNameReported ==
    /\ FlatSearched
    /\ queries[i].Name = express
    /\ InstallsAt(pathExpressDebug) = 1

\* C5: for lockfileVersion >= 2, a name-matching install entry is emitted
\* iff versionSpec is empty or entry.version equals versionSpec, and a
\* name-matching declared dependency is emitted as a reference iff
\* versionSpec is empty or the declared range contains versionSpec; with an
\* empty versionSpec every name-matching occurrence is emitted.
VersionTestDiffersByPass ==
    FlatSearched =>
        /\ \A path \in DOMAIN packageLock.Packages :
              SomeNameOnPathAccepted(path, queries[i].Name) =>
                  ( InstallsAt(path) > 0 <=>
                      InstallVersionRule(packageLock.Packages[path].Version,
                                         queries[i].Version) )
        /\ \A pd \in DeclaredPairs :
              MatchRules(pd[2], queries[i].Name) =>
                  ( ReferencesAt(pd[1], pd[2]) > 0 <=>
                      ReferenceVersionRule(packageLock.Packages[pd[1]].Dependencies[pd[2]],
                                           queries[i].Version) )
        /\ queries[i].Version = <<>> =>
              /\ \A path \in DOMAIN packageLock.Packages :
                    SomeNameOnPathAccepted(path, queries[i].Name) => InstallsAt(path) > 0
              /\ \A pd \in DeclaredPairs :
                    MatchRules(pd[2], queries[i].Name) => ReferencesAt(pd[1], pd[2]) > 0

\* a query for version 5.3.0 got a reference whose range is "^5.3.0" while a
\* name-matching install entry of another version was left out
RangeEmittedInstallLeftOut ==
    /\ FlatSearched
    /\ queries[i].Version = v530
    /\ \E inst \in InstanceSet : inst.IsReference /\ inst.Version = caret530
    /\ \E path \in DOMAIN packageLock.Packages :
          /\ SomeNameOnPathAccepted(path, queries[i].Name)
          /\ InstallsAt(path) = 0


\* the lockfile of end-to-end scenario 3
SvgoLockfilePackages ==
    pathSvgo :> [Version |-> <<>>, Dev |-> FALSE, Dependencies |-> (chalk :> caret530)]

\* C6: for lockfileVersion >= 2 every reference instance comes from one
\* (path, depName) pair of an entry's `dependencies` map and has
\* IsReference = true, ReferenceType = "dependencies", Path = path + " -> "
\* + depName and Version = the declared range; one such instance is emitted
\* per accepted pair; every non-reference instance has IsReference = false
\* and an empty ReferenceType; the svgo lockfile queried for chalk@5.3.0
\* gives exactly one instance, with Path "node_modules/svgo -> chalk".
ReferencesComeFromDeclaredPairs ==
    /\ FlatSearched =>
          /\ \A inst \in InstanceSet :
                inst.IsReference =>
                    /\ inst.ReferenceType = "dependencies"
                    /\ \E pd \in DeclaredPairs :
                          /\ inst.Path = pd[1] \o arrow \o pd[2]
                          /\ inst.Version = packageLock.Packages[pd[1]].Dependencies[pd[2]]
          /\ \A pd \in DeclaredPairs :
                ReferencesAt(pd[1], pd[2]) =
                    IF /\ MatchRules(pd[2], queries[i].Name)
                       /\ ReferenceVersionRule(
                              packageLock.Packages[pd[1]].Dependencies[pd[2]],
                              queries[i].Version)
                    THEN 1 ELSE 0
          /\ ( /\ packageLock.Packages = SvgoLockfilePackages
               /\ queries[i] = [Name |-> chalk, Version |-> v530] )
             => /\ Len(instances) = 1
                /\ instances[1].Path = pathSvgoToChalk
                /\ instances[1].IsReference
    /\ Searched =>
          \A inst \in InstanceSet :
              /\ inst.IsReference \in BOOLEAN
              /\ ~inst.IsReference => inst.ReferenceType = ""

\* the svgo lockfile was searched for chalk@5.3.0 and gave its one reference
SvgoReferenceFound ==
    /\ FlatSearched
    /\ packageLock.Packages = SvgoLockfilePackages
    /\ queries[i] = [Name |-> chalk, Version |-> v530]
    /\ Len(instances) = 1
    /\ instances[1].ReferenceType = "dependencies"

\* the number of places of `path` where `sub` occurs (in the paths of a
\* lockfile no two occurrences of "node_modules/" overlap)
Occurrences(path, sub) ==
    Cardinality({k \in 1..Len(path) :
                    /\ k + Len(sub) - 1 <= Len(path)
                    /\ \A j \in 1..Len(sub) : path[k + j - 1] = sub[j]})

\* the entry paths a reference Path can have been built from
OwnerPaths(inst) ==
    {pd[1] : pd \in {x \in DeclaredPairs : inst.Path = x[1] \o arrow \o x[2]}}

\* C7, as claimed: the Depth of an install instance is the count of
\* "node_modules/" in its path, and the Depth of a reference instance is
\* that count in the owning entry's path plus one.
DepthCountsNodeModulesSegments ==
    Searched =>
        \A inst \in InstanceSet :
            IF inst.IsReference
            THEN \A owner \in OwnerPaths(inst) :
                    inst.Depth = Occurrences(owner, nmPrefix) + 1
            ELSE inst.Depth = Occurrences(inst.Path, nmPrefix)

\* C7, as amended: the Depth of an install instance is the count of
\* "/node_modules/" (with the leading slash) in its path, the entry path
\* for lockfileVersion >= 2 and currentPath for lockfileVersion 1; the Depth
\* of a reference instance is the count of "/node_modules/" in the owning
\* entry's path plus one.
DepthCountsInnerNodeModules ==
    Searched =>
        \A inst \in InstanceSet :
            IF inst.IsReference
            THEN /\ OwnerPaths(inst) # {}
                 /\ \A owner \in OwnerPaths(inst) :
                       inst.Depth = Occurrences(owner, nmSlash) + 1
            ELSE inst.Depth = Occurrences(inst.Path, nmSlash)

\* the search gave an install of Depth 1 and a reference of Depth 2
NestedInstallAndReferenceFound ==
    /\ Searched
    /\ \E inst \in InstanceSet : ~inst.IsReference /\ inst.Depth = 1
    /\ \E inst \in InstanceSet : inst.IsReference /\ inst.Depth = 2

PathNames == {express, debug, typesNode, svgo, ms, chalk}

\* "node_modules/a" and "node_modules/a/node_modules/b"
TopLevelPaths == {nmPrefix \o a : a \in PathNames}
TwoLevelPaths == {nmPrefix \o a \o nmSlash \o b : a \in PathNames, b \in PathNames}

\* C8: an install instance at "node_modules/a/node_modules/b" has Depth 1
\* and one at "node_modules/a" has Depth 0; a reference instance derived
\* from the entry at path P has Depth one greater than an install instance
\* at P (2 for a two-level P), and at least 1.
ReferenceIsOneDeeperThanItsOwner ==
    FlatSearched =>
        \A inst \in InstanceSet :
            IF inst.IsReference
            THEN /\ inst.Depth >= 1
                 /\ \A owner \in OwnerPaths(inst) :
                       /\ owner \in TwoLevelPaths => inst.Depth = 2
                       /\ owner \in TopLevelPaths => inst.Depth = 1
                       /\ \A other \in InstanceSet :
                             (~other.IsReference /\ other.Path = owner)
                                 => inst.Depth = other.Depth + 1
            ELSE /\ inst.Path \in TwoLevelPaths => inst.Depth = 1
                 /\ inst.Path \in TopLevelPaths => inst.Depth = 0

\* the entry "node_modules/express/node_modules/debug" was found both as an
\* install of Depth 1 and as the owner of a reference of Depth 2
OwnerAndItsReferenceFound ==
    /\ FlatSearched
    /\ \E inst \in InstanceSet :
          ~inst.IsReference /\ inst.Path = pathExpressDebug /\ inst.Depth = 1
    /\ \E inst \in InstanceSet :
          inst.IsReference /\ pathExpressDebug \in OwnerPaths(inst) /\ inst.Depth = 2

\* C9, as claimed: IsNested is true exactly when the instance's own Path
\* (for a reference, path + " -> " + depName) contains "/node_modules/".
NestedIffOwnPathHasInnerNodeModules ==
    Searched =>
        \A inst \in InstanceSet : inst.IsNested = IsSubstring(nmSlash, inst.Path)

\* C9, as amended: IsNested is true exactly when the path of the lockfile
\* entry the instance was found at contains "/node_modules/": the Path of
\* an install instance, and for a reference the owning entry's path, that
\* is its Path without the " -> " + depName that follows it.
NestedIffEntryPathHasInnerNodeModules ==
    Searched =>
        \A inst \in InstanceSet :
            IF inst.IsReference
            THEN /\ OwnerPaths(inst) # {}
                 /\ \A owner \in OwnerPaths(inst) :
                       inst.IsNested = IsSubstring(nmSlash, owner)
            ELSE inst.IsNested = IsSubstring(nmSlash, inst.Path)

\* a reference of a top-level entry to a dependency whose name holds
\* "/node_modules/" was found
ReferenceToOddNameFound ==
    /\ FlatSearched
    /\ \E inst \in InstanceSet :
          /\ inst.IsReference
          /\ ~inst.IsNested
          /\ IsSubstring(nmSlash, inst.Path)
    /\ \E inst \in InstanceSet : inst.IsReference /\ inst.IsNested

-----------------------------------------------------------------------------
(* Properties of searchDependenciesRecursive *)

LegacySearched == Searched /\ packageLock.LockfileVersion < 2

\* the nodes of a legacy tree, each as the chain of names leading to it
RECURSIVE TreeChains(_, _)
TreeChains(deps, prefix) ==
    UNION { {Append(prefix, n)} \cup TreeChains(deps[n].Dependencies, Append(prefix, n))
            : n \in DOMAIN deps }

RECURSIVE TreeNode(_, _)
TreeNode(deps, chain) ==
    IF Len(chain) = 1 THEN deps[chain[1]]
    ELSE TreeNode(deps[chain[1]].Dependencies, Tail(chain))

\* the "node_modules/<name>" segments of a chain joined by "/"
RECURSIVE ChainPath(_)
ChainPath(chain) ==
    IF Len(chain) = 1 THEN node_modules \o <<"/">> \o chain[1]
    ELSE ChainPath(SubSeq(chain, 1, Len(chain) - 1))
         \o <<"/">> \o node_modules \o <<"/">> \o chain[Len(chain)]

\* "node_modules/debug/node_modules/ms"
pathDebugMs ==
    <<"n", "o", "d", "e", "_", "m", "o", "d", "u", "l", "e", "s", "/", "d",
      "e", "b", "u", "g", "/", "n", "o", "d", "e", "_", "m", "o", "d", "u",
      "l", "e", "s", "/", "m", "s">>

\* legacyDependencies = {debug: {version 4.3.4, nested {ms: {version 2.0.0}}}}
DebugMsTree ==
    <<"d", "e", "b", "u", "g">> :>
        [Version |-> <<"4", ".", "3", ".", "4">>, Dev |-> FALSE,
         Dependencies |-> (<<"m", "s">> :>
             [Version |-> <<"2", ".", "0", ".", "0">>, Dev |-> FALSE,
              Dependencies |-> <<>>])]

\* C12: for lockfileVersion 1 every node of the legacy tree, whether or not
\* an ancestor matched, emits exactly one non-reference instance iff its
\* name is accepted by the Name Matcher and (versionSpec is empty or the
\* node's version equals versionSpec), with Path the "node_modules/<name>"
\* segments of its ancestors and itself joined by "/"; nothing else is
\* emitted; the tree {debug 4.3.4 {ms 2.0.0}} queried for ms@2.0.0 gives one
\* instance with Path "node_modules/debug/node_modules/ms", Depth 1 and
\* IsNested true.
LegacySearchVisitsEveryNodeOnce ==
    LegacySearched =>
        LET chains == TreeChains(packageLock.Dependencies, <<>>)
        IN  /\ \A c \in chains :
                  InstallsAt(ChainPath(c)) =
                      IF /\ MatchRules(c[Len(c)], queries[i].Name)
                         /\ InstallVersionRule(TreeNode(packageLock.Dependencies, c).Version,
                                               queries[i].Version)
                      THEN 1 ELSE 0
            /\ \A inst \in InstanceSet :
                  /\ ~inst.IsReference
                  /\ \E c \in chains : inst.Path = ChainPath(c)
            /\ ( /\ packageLock.Dependencies = DebugMsTree
                 /\ queries[i] = [Name |-> <<"m", "s">>,
                                  Version |-> <<"2", ".", "0", ".", "0">>] )
               => /\ Len(instances) = 1
                  /\ instances[1].Path = pathDebugMs
                  /\ instances[1].Depth = 1
                  /\ instances[1].IsNested

\* the search of a legacy tree reported a node and a node nested below it
MatchBelowMatchFound ==
    /\ LegacySearched
    /\ \E a, b \in InstanceSet :
          /\ Len(a.Path) < Len(b.Path)
          /\ SubSeq(b.Path, 1, Len(a.Path)) = a.Path

-----------------------------------------------------------------------------
(* Properties of findPackageInstancesInLock: the map it reads *)

\* the entries of `packages` the install pass accepts for queries[i]
AcceptedEntries ==
    {path \in DOMAIN packageLock.Packages :
        /\ SomeNameOnPathAccepted(path, queries[i].Name)
        /\ InstallVersionRule(packageLock.Packages[path].Version, queries[i].Version)}

\* the declared dependencies the reference pass accepts for queries[i]
AcceptedPairs ==
    {pd \in DeclaredPairs :
        /\ MatchRules(pd[2], queries[i].Name)
        /\ ReferenceVersionRule(packageLock.Packages[pd[1]].Dependencies[pd[2]],
                                queries[i].Version)}

\* the nodes of the legacy tree the search accepts for queries[i]
AcceptedNodes ==
    {c \in TreeChains(packageLock.Dependencies, <<>>) :
        /\ MatchRules(c[Len(c)], queries[i].Name)
        /\ InstallVersionRule(TreeNode(packageLock.Dependencies, c).Version,
                              queries[i].Version)}

\* C13: only the map selected by lockfileVersion is consulted.  For
\* lockfileVersion >= 2 the instances are those of the accepted entries and
\* declared dependencies of `packages` and no more, whatever the legacy
\* tree holds; for lockfileVersion 1 they are those of the accepted nodes of
\* the legacy tree and no more, whatever `packages` holds, and none of them
\* is a reference.
OnlySelectedMapConsulted ==
    /\ FlatSearched =>
          /\ \A inst \in InstanceSet :
                IF inst.IsReference
                THEN OwnerPaths(inst) # {}
                ELSE inst.Path \in DOMAIN packageLock.Packages
          /\ Len(instances) = Cardinality(AcceptedEntries) + Cardinality(AcceptedPairs)
    /\ LegacySearched =>
          /\ \A inst \in InstanceSet :
                /\ ~inst.IsReference
                /\ \E c \in TreeChains(packageLock.Dependencies, <<>>) :
                      inst.Path = ChainPath(c)
          /\ Len(instances) = Cardinality(AcceptedNodes)

\* a lockfileVersion 1 lockfile was searched whose `packages` map holds an
\* entry and a declared dependency that the query accepts, and the search
\* reported the one accepted node of the legacy tree
PopulatedPackagesIgnored ==
    /\ LegacySearched
    /\ AcceptedEntries # {}
    /\ AcceptedPairs # {}
    /\ Len(instances) = 1

-----------------------------------------------------------------------------
(* Properties of parsePackageQuery *)

\* the position of the first "@" of s that follows any leading scope "@",
\* or 0 when there is none
SplitPoint(s) ==
    LET after == {k \in 1..Len(s) : s[k] = "@" /\ (k > 1 \/ ~StartsWithAt(s))}
    IN  IF after = {} THEN 0 ELSE CHOOSE k \in after : \A h \in after : k <= h

Before(s, k) == [j \in 1..(k - 1) |-> s[j]]

After(s, k) == [j \in 1..(Len(s) - k) |-> s[k + j]]

\* (input, name, version) of the examples
ParseExamples ==
    { << <<"@", "t", "y", "p", "e", "s", "/", "n", "o", "d", "e", "@", "1", "8",
           ".", "0", ".", "0">>,
         <<"@", "t", "y", "p", "e", "s", "/", "n", "o", "d", "e">>,
         <<"1", "8", ".", "0", ".", "0">> >>,
      << <<"p", "a", "c", "k", "a", "g", "e", "@", "1", ".", "0", ".", "0", "@",
           "b", "e", "t", "a">>,
         <<"p", "a", "c", "k", "a", "g", "e">>,
         <<"1", ".", "0", ".", "0", "@", "b", "e", "t", "a">> >> }

\* C14: parsePackageQuery splits its input at the first "@" that follows
\* any leading scope "@": the name is everything before that "@" and the
\* version everything after it, further "@" included; "@types/node@18.0.0"
\* gives "@types/node" and "18.0.0", "package@1.0.0@beta" gives "package"
\* and "1.0.0@beta"; for every successful parse name + "@" + version is the
\* input.
ParseSplitsAtFirstAtAfterScope ==
    pc = "returned" =>
        LET k == SplitPoint(args.input)
        IN  /\ k > 0 =>
                  /\ ~ret.err
                  /\ ret.query.Name = Before(args.input, k)
                  /\ ret.query.Version = After(args.input, k)
            /\ ~ret.err => ret.query.Name \o <<"@">> \o ret.query.Version = args.input
            /\ \A e \in ParseExamples :
                  args.input = e[1] =>
                      /\ ~ret.err
                      /\ ret.query.Name = e[2]
                      /\ ret.query.Version = e[3]

\* "package@1.0.0@beta" was parsed: the version holds an "@"
VersionWithAtParsed ==
    /\ pc = "returned"
    /\ ~ret.err
    /\ ret.query.Name = <<"p", "a", "c", "k", "a", "g", "e">>
    /\ \E k \in DOMAIN ret.query.Version : ret.query.Version[k] = "@"

\* C15: parsePackageQuery returns an error, and no PackageQuery, for every
\* input that has no "@" after the optional leading scope marker: "react"
\* and "@types/node" alike.
NoAtAfterScopeIsAnError ==
    pc = "returned" =>
        ( SplitPoint(args.input) = 0 =>
              /\ ret.err
              /\ ret.query = [Name |-> <<>>, Version |-> <<>>] )

\* "@types/node" was parsed without error into a query with an empty name
ScopedNameWithoutVersionParsed ==
    /\ pc = "returned"
    /\ args.input = <<"@", "t", "y", "p", "e", "s", "/", "n", "o", "d", "e">>
    /\ ~ret.err
    /\ ret.query.Name = <<>>
    /\ ret.query.Version = <<"t", "y", "p", "e", "s", "/", "n", "o", "d", "e">>

-----------------------------------------------------------------------------
(* Properties of OutputTable.  `ret` holds the printed lines: two lines of  *)
(* heading, the rows, three lines of summary.                               *)

\* how many rows a result takes, safeShown telling whether the row of a
\* query that was not found is printed
RowsOf(result, safeShown) ==
    IF result.Found
    THEN Len(result.Instances) + (IF result.TotalInstances > 1 THEN 1 ELSE 0)
    ELSE IF safeShown THEN 1 ELSE 0

\* how many rows the first k results take
RECURSIVE RowsBefore(_, _, _)
RowsBefore(rs, k, safeShown) ==
    IF k = 0 THEN 0
    ELSE RowsBefore(rs, k - 1, safeShown) + RowsOf(rs[k], safeShown)

\* "(N total)" for N below ten
TotalText(n) ==
    <<"(", <<"0", "1", "2", "3", "4", "5", "6", "7", "8", "9">>[n + 1],
      " ", "t", "o", "t", "a", "l", ")">>

\* the rows of the k-th result are what the claim says they are
RowsAreRight(rs, k, safeShown) ==
    LET from == 2 + RowsBefore(rs, k - 1, safeShown)
        n == Len(rs[k].Instances)
    IN  IF ~rs[k].Found
        THEN safeShown =>
                 /\ ret[from + 1].Status = "SAFE"
                 /\ ret[from + 1].Package = rs[k].Package.Name
        ELSE /\ \A j \in 1..n :
                   \* as many rows show an instance as the result holds copies of it
                   LET x == rs[k].Instances[j]
                       shows(row) == /\ row.Path = x.Path
                                     /\ row.FoundVer = x.Version
                                     /\ row.Status = IF x.IsReference THEN "REF" ELSE "RISK"
                   IN  Cardinality({r \in 1..n : shows(ret[from + r])})
                       = Cardinality({c \in 1..n :
                                         /\ rs[k].Instances[c].Path = x.Path
                                         /\ rs[k].Instances[c].Version = x.Version
                                         /\ rs[k].Instances[c].IsReference = x.IsReference})
             /\ \A r \in 1..n : ret[from + r].Status \in {"RISK", "REF"}
             /\ rs[k].TotalInstances > 1 =>
                   /\ ret[from + n + 1].Status = ""
                   /\ ret[from + n + 1].FoundVer = TotalText(rs[k].TotalInstances)

TableIsRight(safeShown) ==
    pc = "returned" =>
        LET rs == args.results
            found == {k \in DOMAIN rs : rs[k].Found}
            summary == ret[Len(ret) - 1]
        IN  /\ Len(ret) = 2 + RowsBefore(rs, Len(rs), safeShown) + 3
            /\ \A k \in DOMAIN rs : RowsAreRight(rs, k, safeShown)
            /\ summary.Risks = Cardinality(found)
            /\ summary.Safe = Cardinality(DOMAIN rs \ found)
            /\ summary.Risks + summary.Safe = Len(rs)

-----------------------------------------------------------------------------
(* Properties of runScan *)

\* the query strings of the four sources, in the order the run reads them
AllTokens ==
    args.sources.jsonArg.packages \o args.sources.packagesFile.packages
    \o args.sources.packagesFlag \o args.sources.rest

\* a name@version token is malformed when no "@" is present
HasAt(token) == \E k \in DOMAIN token : token[k] = "@"

NoAt(token) == ~HasAt(token)

WellFormedTokens == SelectSeq(AllTokens, HasAt)

MalformedTokens == SelectSeq(AllTokens, NoAt)

\* each query-list file is not given or holds a JSON array of strings
FilesUsable ==
    /\ args.sources.jsonArg.state \in {"none", "ok"}
    /\ args.sources.packagesFile.state \in {"none", "ok"}

LockfileUsable == args.lockfile.state = "ok"

FormatKnown == args.outputFormat \in {"table", "json"}

IsParseMessage(message) == message.Error = "parsing package"

\* the tokens the run has reported as not parsable, in order
ReportedTokens ==
    LET messages == SelectSeq(ret.stderr, IsParseMessage)
    IN  [j \in 1..Len(messages) |-> messages[j].pkg]

AsToken(query) == query.Name \o <<"@">> \o query.Version

Exited == pc = "exited"

\* C16: a malformed name@version token (no "@" present) is reported and
\* skipped without aborting the run: once the tokens are parsed, the
\* queries are the other tokens of all sources in their original order,
\* the malformed ones are reported, and these queries are what is scanned;
\* the run is fatal at this point (non-zero exit, no scan) exactly when no
\* token parsed.
MalformedTokensAreSkipped ==
    (FilesUsable /\ pc \notin {"positional", "packagesFile", "parse"}) =>
        /\ Len(queries) = Len(WellFormedTokens)
        /\ \A j \in DOMAIN queries : AsToken(queries[j]) = WellFormedTokens[j]
        /\ ReportedTokens = MalformedTokens
        /\ WellFormedTokens = <<>> =>
              Exited /\ ret.exitCode # 0 /\ ~ret.scanned
        /\ (WellFormedTokens # <<>> /\ LockfileUsable /\ FormatKnown) =>
              ~(Exited /\ ret.exitCode # 0)
        /\ (WellFormedTokens # <<>> /\ LockfileUsable /\ Exited) =>
              /\ ret.scanned
              /\ Len(results) = Len(WellFormedTokens)
              /\ \A j \in DOMAIN results :
                    AsToken(results[j].Package) = WellFormedTokens[j]

\* a run given a malformed token followed by a well-formed one reported
\* the first, scanned the second and ended with exit status 0
MalformedSkippedRestScanned ==
    /\ Exited
    /\ ret.exitCode = 0
    /\ Len(AllTokens) = 2
    /\ NoAt(AllTokens[1])
    /\ ReportedTokens = <<AllTokens[1]>>
    /\ Len(results) = 1
    /\ AsToken(results[1].Package) = AllTokens[2]
    /\ ret.stdout # <<>>

\* C17, as claimed: a missing or unparsable query-list file is not fatal:
\* the source is skipped and the run goes on to scan the queries of the
\* remaining sources; it is fatal only if no query at all was parsed.
UnusableQueryFileIsSkipped ==
    ( /\ ~FilesUsable
      /\ Exited
      /\ WellFormedTokens # <<>>
      /\ LockfileUsable
      /\ FormatKnown )
    => (ret.exitCode = 0 /\ ret.scanned)

\* C17, as amended: a missing or unparsable query-list file is fatal: the
\* run reports it and ends with a non-zero exit status when it reads that
\* file, before any token is parsed, whatever the remaining sources hold;
\* nothing is scanned or rendered.
UnusableQueryFileIsFatal ==
    ~FilesUsable =>
        /\ pc \in {"positional", "packagesFile", "exited"}
        /\ (args.sources.jsonArg.state \notin {"none", "ok"} => pc # "packagesFile")
        /\ queries = <<>>
        /\ ReportedTokens = <<>>
        /\ ~ret.scanned
        /\ ret.stdout = <<>>
        /\ Exited =>
              /\ ret.exitCode # 0
              /\ ret.stderr = <<[Error |-> "reading packages file"]>>

\* a run whose --packages-file cannot be used and whose other sources hold
\* a well-formed token has ended with exit status 1
RunEndedAtUnusableFile ==
    /\ Exited
    /\ ret.exitCode = 1
    /\ args.sources.jsonArg.state = "none"
    /\ args.sources.packagesFile.state \in {"unreadable", "invalid"}
    /\ WellFormedTokens # <<>>
    /\ LockfileUsable

\* no query is resolved: a query-list file is unusable or no token parses
NoQueryResolved == ~FilesUsable \/ WellFormedTokens = <<>>

\* C18: in every run, if the lockfile is missing or no valid JSON the run
\* ends with a non-zero exit status, ScanPackages not having been called
\* and nothing rendered; the run also ends with a non-zero exit status and
\* nothing rendered when no query was resolved or the output format is
\* neither "table" nor "json"; and whenever results are rendered, the
\* lockfile was parsed and at least one query was parsed.
FatalRunsEndBeforeRendering ==
    /\ [](~LockfileUsable =>
             /\ ~ret.scanned
             /\ ret.stdout = <<>>
             /\ (Exited => ret.exitCode # 0))
    /\ []((NoQueryResolved \/ ~FormatKnown) =>
             /\ ret.stdout = <<>>
             /\ (Exited => ret.exitCode # 0))
    /\ [](ret.stdout # <<>> =>
             /\ LockfileUsable
             /\ packageLock = args.lockfile.lock
             /\ Len(queries) >= 1)
    /\ ((~LockfileUsable \/ NoQueryResolved \/ ~FormatKnown) ~> Exited)

\* a run with a parsed query has ended at a lockfile that is no valid JSON
RunEndedAtInvalidLockfile ==
    /\ Exited
    /\ ret.exitCode = 1
    /\ args.lockfile.state = "invalid"
    /\ Len(queries) >= 1
    /\ ~ret.scanned

\* C20: with --search-in-deps set to false the scan does not search the
\* dependency requirements of other packages: no result holds a reference
\* instance.
NoReferenceWhenSearchInDepsIsOff ==
    ~args.searchInDeps =>
        \A k \in DOMAIN results :
            \A j \in DOMAIN results[k].Instances :
                ~results[k].Instances[j].IsReference

\* a run with --search-in-deps=false has rendered a reference instance
ReferenceRenderedWithSearchInDepsOff ==
    /\ Exited
    /\ ret.exitCode = 0
    /\ ~args.searchInDeps
    /\ ret.stdout # <<>>
    /\ \E k \in DOMAIN results :
          \E j \in DOMAIN results[k].Instances : results[k].Instances[j].IsReference

\* both calls of ScanPackages have returned
BothCallsReturned == pc = "done" /\ Len(ret) = 1

\* the instance paths of one result, as a bag
PathBag(result) ==
    [path \in {result.Instances[k].Path : k \in DOMAIN result.Instances}
        |-> Cardinality({k \in DOMAIN result.Instances :
                            result.Instances[k].Path = path})]

\* C21: ScanPackages is deterministic: two calls with the same lockfile,
\* query list and filter config return the same ScanResult sequence,
\* including the order of the instances inside each result, whatever the
\* order in which the maps of the lockfile are visited.
ScanPackagesIsDeterministic ==
    BothCallsReturned => results = ret[1]

\* two calls with the same arguments have returned a result for the same
\* query with the same instances in a different order
SameInstancesInAnotherOrder ==
    /\ BothCallsReturned
    /\ \E k \in DOMAIN results :
          /\ results[k].Package = ret[1][k].Package
          /\ PathBag(results[k]) = PathBag(ret[1][k])
          /\ results[k].Instances # ret[1][k].Instances

====
